---- MODULE Spec2Model ----
(***************************************************************************)
(* Model of PylintMetrics.py: the PylintMetrics instance (captured pylint  *)
(* output, the three metric tables, the score), its operations run,        *)
(* print_metrics, write_metrics, write_output, and the __main__ driver.    *)
(*                                                                         *)
(* Representation.                                                         *)
(*  - A text (what stdout.read() returns) is the sequence of its pieces     *)
(*    [body, nl]: the characters up to a newline and whether the newline   *)
(*    is there (it is, except perhaps for the last piece, whose body is    *)
(*    then not empty). "" is the empty sequence.                           *)
(*  - A line is a record. k = "lit" is a literal line with text s.         *)
(*    k = "row" is a table line of the shape                               *)
(*        " |<m><spaces>|<v><spaces>|<anything>"                           *)
(*    with m the characters of the first cell and v the text of the second *)
(*    (the only lines _row_parser matches). k = "rating" is the line       *)
(*        "<lead>Your code has been rated at <v>/10<anything>"             *)
(*    where lead says whether the line starts with the single space.      *)
(*  - A number text v is [form, neg, ip, fr]: form "num" is                *)
(*    [-]<ip>[.<fr>] with fr the sequence of fraction digits (<< >> when   *)
(*    the text has no '.'), form "word" is a text float() rejects.         *)
(*  - A Python float is the integer number of its tenths.                  *)
(*  - A dict is the sequence of its [key, val] items in insertion order.   *)
(*  - None is a record with isNone = TRUE.                                 *)
(***************************************************************************)
EXTENDS Integers, Sequences, FiniteSets, TLC

VARIABLES
    self,           \* the PylintMetrics instance: its fields cmd, _stdout, _stderr, ...
    console,        \* what the process has printed, in order
    fs,             \* the files written: name -> [kind, data]
    result,         \* the last call: its name, the exception it raised, what it emitted
    emits,          \* the calls that printed metrics or opened a file, in order
    nruns,          \* number of run() calls started so far
    okruns,         \* the run() calls that returned without raising
    src,            \* which run() call stored each metric field (0: none)
    inp,            \* the parameters of the output the analyzer produced last
    calls,          \* number of calls made on the instance
    pc,             \* position of the __main__ driver ("lib": no driver)
    args            \* the parsed command line of the driver

vars == <<self, console, fs, result, emits, nruns, okruns, src, inp, calls, pc, args>>

-----------------------------------------------------------------------------
(* Bounds of the model *)

\* calls made on one instance in the lifecycle specification
MaxCalls == 3
\* calls made on one instance in the single-run specification
MaxOnceCalls == 2

-----------------------------------------------------------------------------
(* Values *)

None == [isNone |-> TRUE, x |-> << >>]
Some(x) == [isNone |-> FALSE, x |-> x]

NumText(neg, ip, fr) == [form |-> "num", neg |-> neg, ip |-> ip, fr |-> fr]
WordText == [form |-> "word", neg |-> FALSE, ip |-> 0, fr |-> << >>]

Lit(s) == [k |-> "lit", s |-> s, m |-> << >>, v |-> WordText, lead |-> FALSE]
Row(m, v) == [k |-> "row", s |-> "", m |-> m, v |-> v, lead |-> TRUE]
Rating(lead, v) == [k |-> "rating", s |-> "", m |-> << >>, v |-> v, lead |-> lead]
EmptyLine == Lit("")
Piece(body, nl) == [body |-> body, nl |-> nl]

IntVal(n) == [t |-> "int", n |-> n]
FloatVal(n) == [t |-> "float", n |-> n]
NoneVal == [t |-> "None", n |-> 0]

Item(key, val) == [key |-> key, val |-> val]

\* the key 'score' of print_metrics / write_metrics
ScoreKey == <<"s", "c", "o", "r", "e">>

-----------------------------------------------------------------------------
(* Python built-ins the code uses *)

\* str.split("\n"): the body of every piece, and the empty line that follows a final
\* newline; "" gives one empty line
Split(t) ==
    [i \in 1..Len(t) |-> t[i].body]
    \o (IF t = << >> \/ t[Len(t)].nl THEN <<EmptyLine>> ELSE << >>)

\* list.index(x): the 0-based position of the first element equal to x
Index(l, x) ==
    IF \E i \in 1..Len(l) : l[i] = x
    THEN [found |-> TRUE,
          ind |-> (CHOOSE i \in 1..Len(l) : l[i] = x /\ \A j \in 1..(i - 1) : l[j] # x) - 1]
    ELSE [found |-> FALSE, ind |-> 0]

\* l[i] for a 0-based i >= 0
At(l, i) == l[i + 1]

\* str.replace(' ', '_')
Replace(m) == [i \in 1..Len(m) |-> IF m[i] = " " THEN "_" ELSE m[i]]

\* float(text) that drops the sign
FloatOfUnsigned(v) ==
    IF v.form # "num" THEN [ok |-> FALSE, x |-> 0]
    ELSE [ok |-> TRUE, x |-> 10 * v.ip + (IF v.fr = << >> THEN 0 ELSE v.fr[1])]

\* float(text): the number in tenths; ValueError for a text that is no number
FloatOf(v) ==
    IF v.form # "num" THEN [ok |-> FALSE, x |-> 0]
    ELSE LET mag == 10 * v.ip + (IF v.fr = << >> THEN 0 ELSE v.fr[1])
         IN  [ok |-> TRUE, x |-> IF v.neg THEN 0 - mag ELSE mag]

\* int(x) that rounds down instead of toward zero
IntOfFloor(x) == x \div 10

\* int(x) of a float: truncation toward zero
IntOf(x) == IF x >= 0 THEN x \div 10 ELSE 0 - ((0 - x) \div 10)

\* d[key] = val on a dict: replaces the value of a present key in place, appends a new key
DictSet(d, key, val) ==
    IF \E i \in 1..Len(d) : d[i].key = key
    THEN [i \in 1..Len(d) |-> IF d[i].key = key THEN Item(key, val) ELSE d[i]]
    ELSE Append(d, Item(key, val))

\* d.update(e)
RECURSIVE DictUpdate(_, _)
DictUpdate(d, e) ==
    IF e = << >> THEN d ELSE DictUpdate(DictSet(d, Head(e).key, Head(e).val), Tail(e))

Keys(d) == {d[i].key : i \in 1..Len(d)}
Get(d, key) == d[CHOOSE i \in 1..Len(d) : d[i].key = key].val

-----------------------------------------------------------------------------
(* The analyzer's output: what lint.py_run can hand back *)

Sep == Lit(" +---+")

\* one report section: the title, 5 more lines, then a data row on every second line
Table(title, rows) ==
    <<Lit(title), Lit(" ---"), EmptyLine, Sep, Row(<<"t">>, WordText), Lit(" +===+")>>
    \o rows \o <<EmptyLine>>

Cell(m, v) == <<Row(m, v), Sep>>

RawTable(p) ==
    Table(" Raw metrics",
          Cell(p.lab, p.val) \o Cell(<<"d">>, NumText(FALSE, 10, << >>))
          \o Cell(<<"c", "m">>, NumText(FALSE, 5, << >>))
          \o Cell(<<"e">>, NumText(FALSE, 3, << >>)))

DupTable(p) ==
    Table(" Duplication",
          Cell(<<"n", " ", "d">>, NumText(FALSE, 0, << >>))
          \o (IF p.shape = "norow" THEN <<Sep, Sep>>
              ELSE Cell(<<"p", " ", "d">>, NumText(FALSE, 0, <<0, 0, 0>>))))

MsgTable(p) ==
    Table(" Messages by category",
          Cell(<<"C">>, NumText(FALSE, 1, << >>)) \o Cell(<<"R">>, NumText(FALSE, 2, << >>))
          \o Cell(<<"W">>, NumText(FALSE, 3, <<7>>)) \o Cell(<<"E">>, NumText(FALSE, 4, << >>)))

RatingLine(p) ==
    CASE p.rating = "good"   -> Rating(TRUE, NumText(FALSE, 8, <<5>>))
      [] p.rating = "int"    -> Rating(TRUE, NumText(FALSE, 10, << >>))
      [] p.rating = "low"    -> Rating(TRUE, NumText(TRUE, 12, <<5>>))
      [] p.rating = "nolead" -> Rating(FALSE, NumText(FALSE, 8, <<5>>))
      [] OTHER               -> Lit(" no rating")

RECURSIVE Blank(_)
Blank(n) == IF n = 0 THEN << >> ELSE <<EmptyLine>> \o Blank(n - 1)

\* the lines of the output described by p
OutLines(p) ==
    IF p.shape = "empty" THEN <<EmptyLine>>
    ELSE LET head == <<Lit(" m.py:1: C0111")>>
                     \o (IF p.rep = "absent" THEN << >> ELSE <<Lit(" Report"), Lit(" ======")>>)
                     \o (IF p.missing = "R" THEN << >> ELSE RawTable(p))
                     \o (IF p.missing = "D" THEN << >> ELSE DupTable(p))
             msg  == MsgTable(p)
         IN  IF p.shape = "cut" THEN head \o SubSeq(msg, 1, 7)
             ELSE head \o (IF p.missing = "M" THEN << >> ELSE msg)
                  \o (IF p.rep = "twice" THEN <<Lit(" Report")>> ELSE << >>)
                  \o <<Lit(" Global evaluation"), RatingLine(p)>> \o Blank(p.tail)

\* "\n".join(lines), for at least one line
Join(l) ==
    [i \in 1..(Len(l) - 1) |-> Piece(l[i], TRUE)]
    \o (IF l[Len(l)] = EmptyLine THEN << >> ELSE <<Piece(l[Len(l)], FALSE)>>)

Output(p) == Join(OutLines(p))

Labels == {<<"c">>, <<"n", "_", "d">>, ScoreKey}
ValueTexts == {NumText(FALSE, 120, << >>), NumText(TRUE, 7, <<9>>),
               NumText(TRUE, 0, <<5>>), WordText}

EmptyInput ==
    [shape |-> "empty", rep |-> "absent", missing |-> "none", lab |-> <<"c">>,
     val |-> NumText(FALSE, 120, << >>), rating |-> "good", tail |-> 2]

\* every output of the single-run specification
AllInputs ==
    [shape : {"ok"}, rep : {"absent", "present", "twice"},
     missing : {"none", "R", "D", "M"}, lab : Labels, val : ValueTexts,
     rating : {"good", "int", "low", "nolead", "absent"}, tail : {1, 2}]
    \cup [shape : {"norow", "cut"}, rep : {"present"}, missing : {"none"}, lab : {<<"c">>},
          val : ValueTexts, rating : {"good"}, tail : {2}]
    \cup {EmptyInput}

\* the outputs of the lifecycle specification and of the driver
FewInputs ==
    [shape : {"ok"}, rep : {"present"}, missing : {"none", "D"}, lab : {<<"c">>},
     val : {NumText(FALSE, 120, << >>), NumText(TRUE, 7, <<9>>)},
     rating : {"good", "absent"}, tail : {2}]
    \cup {EmptyInput}

\* what the analyzer writes to standard error
Stderrs == {<< >>, <<Piece(Lit("Traceback"), TRUE)>>}

FNames == {"f.txt", "o.txt"}

-----------------------------------------------------------------------------
(* class PylintMetrics *)

Ev(t, key, val) == [t |-> t, key |-> key, val |-> val]
Res(op, err, printed, opened) == [op |-> op, err |-> err, printed |-> printed, opened |-> opened]
Emit(op, file) == [op |-> op, file |-> file]

\* the instance __init__ builds (conf: None or the path of a configuration file)
__init__(modules, conf) ==
    [cmd |-> [modules |-> modules, reports |-> "y", rcfile |-> conf],
     _stdout |-> None, _stderr |-> None, _stdout_l |-> None, _stderr_l |-> None,
     _raw_metrics |-> None, _duplication |-> None, _messages |-> None, _score |-> NoneVal]

\* print(self.cmd) of __init__
CmdLine == Ev("cmd", << >>, NoneVal)

\* bool(x) of None or a text
Truthy(o) == ~o.isNone /\ o.x # << >>

_row_parser(line) == line.k = "row"

\* " Your code has been rated at (?P<score>[-]?\d+(?:\.\d+))\/10.*", matched at the line's start
_score_message(line) ==
    line.k = "rating" /\ line.lead /\ line.v.form = "num" /\ line.v.fr # << >>

\* the exception _check raises ("none": it returns)
_check(so, se) ==
    IF so.isNone THEN "No stdout captured"
    ELSE IF Truthy(se) /\ (se # se) THEN "pylint run caused errors"
    ELSE IF ~Truthy(so) /\ (se # se) THEN "No stdout captured"
    ELSE "none"

\* the loop of _get_parsed_block from row i on: the exception raised and the dict built
RECURSIVE ParseRows(_, _, _, _)
ParseRows(l, i, stop, data) ==
    IF i >= stop THEN [err |-> "none", data |-> data]
    ELSE IF i >= Len(l) THEN [err |-> "IndexError", data |-> data]
    ELSE IF ~_row_parser(At(l, i)) THEN [err |-> "Something went wrong parsing", data |-> data]
    ELSE LET f == FloatOf(At(l, i).v)
         IN  IF ~f.ok THEN [err |-> "ValueError", data |-> data]
             ELSE ParseRows(l, i + 2, stop,
                            DictSet(data, Replace(At(l, i).m), IntVal(IntOf(f.x))))

_get_parsed_block(l, first_row, num_rows) ==
    ParseRows(l, first_row, first_row + 2 * num_rows, << >>)

\* _get_parse_score that reads the second-from-last line
_get_parse_score_off_by_one(so, se, l) ==
    IF _check(so, se) # "none" THEN [err |-> _check(so, se), score |-> NoneVal]
    ELSE IF Len(l) < 2 THEN [err |-> "IndexError", score |-> NoneVal]
    ELSE LET line == l[Len(l) - 1]
         IN  IF ~_score_message(line)
             THEN [err |-> "Could not parse score from pylint", score |-> NoneVal]
             ELSE [err |-> "none", score |-> FloatVal(FloatOf(line.v).x)]

_get_parse_score(so, se, l) ==
    IF _check(so, se) # "none" THEN [err |-> _check(so, se), score |-> NoneVal]
    ELSE IF Len(l) < 3 THEN [err |-> "IndexError", score |-> NoneVal]
    ELSE LET line == l[Len(l) - 2]
         IN  IF ~_score_message(line)
             THEN [err |-> "Could not parse score from pylint", score |-> NoneVal]
             ELSE [err |-> "none", score |-> FloatVal(FloatOf(line.v).x)]

\* _parse on instance s: the exception raised, the instance it leaves, the fields it stored
_parse(s) ==
    LET l  == s._stdout_l.x
        i1 == Index(l, Lit(" Raw metrics"))
        b1 == _get_parsed_block(l, i1.ind + 6, 4)
        s1 == [s EXCEPT !._raw_metrics = Some(b1.data)]
        i2 == Index(l, Lit(" Duplication"))
        b2 == _get_parsed_block(l, i2.ind + 6, 2)
        s2 == [s1 EXCEPT !._duplication = Some(b2.data)]
        i3 == Index(l, Lit(" Messages by category"))
        b3 == _get_parsed_block(l, i3.ind + 6, 4)
        s3 == [s2 EXCEPT !._messages = Some(b3.data)]
        sc == _get_parse_score(s._stdout, s._stderr, l)
        s4 == [s3 EXCEPT !._score = sc.score]
        R(err, to, n) == [err |-> err, self |-> to, stored |-> n]
    IN  IF ~i1.found THEN R("ValueError", s, 0)
        ELSE IF b1.err # "none" THEN R(b1.err, s, 0)
        ELSE IF ~i2.found THEN R("ValueError", s1, 1)
        ELSE IF b2.err # "none" THEN R(b2.err, s1, 1)
        ELSE IF ~i3.found THEN R("ValueError", s2, 2)
        ELSE IF b3.err # "none" THEN R(b3.err, s2, 2)
        ELSE IF sc.err # "none" THEN R(sc.err, s3, 3)
        ELSE R("none", s4, 4)

\* _run on instance s when the analyzer writes the texts out and err
_run(s, out, err) ==
    [s EXCEPT !._stdout = Some(out), !._stdout_l = Some(Split(out)),
              !._stderr = Some(err), !._stderr_l = Some(Split(err))]

\* run(): _run, _check, _parse; an exception ends it where it is raised
RunOutcome(s, out, err) ==
    LET s1 == _run(s, out, err)
        c  == _check(s1._stdout, s1._stderr)
    IN  IF c # "none" THEN [err |-> c, self |-> s1, stored |-> 0] ELSE _parse(s1)

\* the run number recorded for the i-th metric field after run k stored n fields
Stamp(i, n, old, k) == IF i <= n THEN k ELSE old

run(p, e) ==
    LET r == RunOutcome(self, Output(p), e)
        k == nruns + 1
    IN  /\ self' = r.self
        /\ result' = Res("run", r.err, 0, "")
        /\ nruns' = k
        /\ okruns' = IF r.err = "none" THEN okruns \cup {k} ELSE okruns
        /\ src' = [raw |-> Stamp(1, r.stored, src.raw, k), dup |-> Stamp(2, r.stored, src.dup, k),
                   msg |-> Stamp(3, r.stored, src.msg, k), score |-> Stamp(4, r.stored, src.score, k)]
        /\ inp' = p
        /\ UNCHANGED <<console, fs, emits>>

\* the dict print_metrics and write_metrics build: the exception raised and the dict
Data(s) ==
    IF _check(s._stdout, s._stderr) # "none"
    THEN [err |-> _check(s._stdout, s._stderr), data |-> << >>]
    ELSE IF s._raw_metrics.isNone \/ s._duplication.isNone \/ s._messages.isNone
    THEN [err |-> "TypeError", data |-> << >>]
    ELSE [err |-> "none",
          data |-> DictSet(DictUpdate(DictUpdate(DictUpdate(<< >>, s._raw_metrics.x),
                                                 s._duplication.x), s._messages.x),
                           ScoreKey, s._score)]

print_metrics ==
    LET d == Data(self)
    IN  /\ console' = console \o [i \in 1..Len(d.data) |-> Ev("metric", d.data[i].key, d.data[i].val)]
        /\ result' = Res("print_metrics", d.err, Len(d.data), "")
        /\ emits' = IF d.err # "none" THEN emits ELSE Append(emits, Emit("print_metrics", ""))
        /\ UNCHANGED <<self, fs, nruns, okruns, src, inp>>

write_metrics(fname) ==
    LET d == Data(self)
    IN  /\ fs' = IF d.err # "none" THEN fs
                 ELSE [fs EXCEPT ![fname] = [kind |-> "metrics", data |-> d.data]]
        /\ result' = Res("write_metrics", d.err, 0, IF d.err # "none" THEN "" ELSE fname)
        /\ emits' = IF d.err # "none" THEN emits ELSE Append(emits, Emit("write_metrics", fname))
        /\ UNCHANGED <<self, console, nruns, okruns, src, inp>>

\* the loop of write_output with continue in the place of break
WriteLinesContinue(l) == SelectSeq(l, LAMBDA x : x # Lit(" Report"))

\* the loop of write_output: line i is written when the loop has not met " Report" up to i
WriteLines(l) ==
    SubSeq(l, 1, Cardinality({i \in 1..Len(l) : \A j \in 1..i : l[j] # Lit(" Report")}))

write_output(fname) ==
    LET c == _check(self._stdout, self._stderr)
    IN  /\ fs' = IF c # "none" THEN fs
                 ELSE [fs EXCEPT ![fname] =
                          [kind |-> "output", data |-> WriteLines(self._stdout_l.x)]]
        /\ result' = Res("write_output", c, 0, IF c # "none" THEN "" ELSE fname)
        /\ emits' = IF c # "none" THEN emits ELSE Append(emits, Emit("write_output", fname))
        /\ UNCHANGED <<self, console, nruns, okruns, src, inp>>

-----------------------------------------------------------------------------
(* Calls on one instance, in any order *)

NoFiles == [f \in FNames |-> [kind |-> "absent", data |-> << >>]]
NoArgs == [conf |-> None, file |-> None, outfile |-> None]

\* the ghost variables before any call
Fresh ==
    /\ fs = NoFiles
    /\ emits = << >>
    /\ nruns = 0
    /\ okruns = {}
    /\ src = [raw |-> 0, dup |-> 0, msg |-> 0, score |-> 0]
    /\ inp = EmptyInput
    /\ calls = 0

\* PylintMetrics("m")
InitLib ==
    /\ self = __init__("m", None)
    /\ console = <<CmdLine>>
    /\ result = Res("__init__", "none", 1, "")
    /\ Fresh
    /\ pc = "lib"
    /\ args = NoArgs

Call(limit) == pc = "lib" /\ calls < limit /\ calls' = calls + 1 /\ UNCHANGED <<pc, args>>

CallRun == \E p \in FewInputs, e \in Stderrs : Call(MaxCalls) /\ run(p, e)
CallPrintMetrics == Call(MaxCalls) /\ print_metrics
CallWriteMetrics == \E f \in FNames : Call(MaxCalls) /\ write_metrics(f)
CallWriteOutput == \E f \in FNames : Call(MaxCalls) /\ write_output(f)

Next == CallRun \/ CallPrintMetrics \/ CallWriteMetrics \/ CallWriteOutput

Spec == InitLib /\ [][Next]_vars

-----------------------------------------------------------------------------
(* One run() on a fresh instance, over every output, and the calls that follow it *)

OnceRun == \E p \in AllInputs, e \in Stderrs : nruns = 0 /\ Call(MaxOnceCalls) /\ run(p, e)
OncePrintMetrics == nruns = 1 /\ Call(MaxOnceCalls) /\ print_metrics
OnceWriteMetrics == nruns = 1 /\ Call(MaxOnceCalls) /\ write_metrics("f.txt")
OnceWriteOutput == nruns = 1 /\ Call(MaxOnceCalls) /\ write_output("o.txt")

NextOnce == OnceRun \/ OncePrintMetrics \/ OnceWriteMetrics \/ OnceWriteOutput

SpecOnce == InitLib /\ [][NextOnce]_vars

-----------------------------------------------------------------------------
(* __main__: one statement per step *)

NoInstance ==
    [cmd |-> [modules |-> "", reports |-> "", rcfile |-> None],
     _stdout |-> None, _stderr |-> None, _stdout_l |-> None, _stderr_l |-> None,
     _raw_metrics |-> None, _duplication |-> None, _messages |-> None, _score |-> NoneVal]

InitMain ==
    /\ self = NoInstance
    /\ console = << >>
    /\ result = Res("", "none", 0, "")
    /\ Fresh
    /\ pc = "parse_args"
    /\ args = NoArgs

\* a step of the driver that calls the instance: an exception ends the process
Step(from, to) ==
    /\ pc = from
    /\ calls' = calls + 1
    /\ pc' = IF result'.err = "none" THEN to ELSE "exit1"
    /\ UNCHANGED args

\* a step of the driver that prints a line
Say(from, to, t) ==
    /\ pc = from
    /\ console' = Append(console, Ev(t, << >>, NoneVal))
    /\ pc' = to
    /\ UNCHANGED <<self, fs, result, emits, nruns, okruns, src, inp, calls, args>>

\* parser.parse_args() and pm = PylintMetrics(" ".join(args.modules), conf=args.conf)
MainInit ==
    \E conf \in {None, Some("rc")}, file \in {None, Some("f.txt")},
       outfile \in {None, Some("o.txt"), Some("f.txt")} :
        /\ pc = "parse_args"
        /\ args' = [conf |-> conf, file |-> file, outfile |-> outfile]
        /\ self' = __init__("m", conf)
        /\ console' = Append(console, CmdLine)
        /\ pc' = "run"
        /\ UNCHANGED <<fs, result, emits, nruns, okruns, src, inp, calls>>

\* pm.run() with its exception swallowed
MainRunSwallowed ==
    \E p \in FewInputs, e \in Stderrs :
        /\ run(p, e)
        /\ pc = "run"
        /\ calls' = calls + 1
        /\ pc' = "metrics"
        /\ UNCHANGED args

MainRun == \E p \in FewInputs, e \in Stderrs : run(p, e) /\ Step("run", "metrics")

MainWriteMetrics ==
    ~args.file.isNone /\ write_metrics(args.file.x) /\ Step("metrics", "wrote_metrics")

MainWroteMetrics == Say("wrote_metrics", "output", "Wrote metrics to")

MainPrintMetrics == args.file.isNone /\ print_metrics /\ Step("metrics", "output")

MainWriteOutput ==
    ~args.outfile.isNone /\ write_output(args.outfile.x) /\ Step("output", "wrote_output")

MainWroteOutput == Say("wrote_output", "exit0", "Wrote output to")

MainNoOutput == args.outfile.isNone /\ pc = "output" /\ pc' = "exit0"
                /\ UNCHANGED <<self, console, fs, result, emits, nruns, okruns, src, inp, calls, args>>

NextMain ==
    \/ MainInit \/ MainRun \/ MainWriteMetrics \/ MainWroteMetrics \/ MainPrintMetrics
    \/ MainWriteOutput \/ MainWroteOutput \/ MainNoOutput

SpecMain == InitMain /\ [][NextMain]_vars

-----------------------------------------------------------------------------
(* Vocabulary of the properties *)

OutputOps == {"print_metrics", "write_metrics", "write_output"}
MetricOps == {"print_metrics", "write_metrics"}

\* the last call emitted nothing: it printed no line and opened no file
EmittedNothing == result.printed = 0 /\ result.opened = ""

\* no metric field holds a value that run k parsed
NothingFrom(k) == src.raw # k /\ src.dup # k /\ src.msg # k /\ src.score # k

\* the data rows among the lines of a table, in order
DataRows(lines) == SelectSeq(lines, LAMBDA x : x.k = "row" /\ x.v.form = "num")

\* the data rows of the three tables of output p, in order
AllRows(p) == DataRows(RawTable(p) \o DupTable(p) \o MsgTable(p))

\* the integer part, with its sign, of a number text
Truncated(v) == IF v.neg THEN 0 - v.ip ELSE v.ip

\* the tenths of the number on the rating line of p
RatingTenths(p) ==
    CASE p.rating = "good" -> 85 [] p.rating = "nolead" -> 85
      [] p.rating = "int" -> 100 [] p.rating = "low" -> 0 - 125 [] OTHER -> 0

\* the three tables are there with numeric rows, and the rating line matches, third from the end
WellFormed(p) ==
    /\ p.shape = "ok" /\ p.missing = "none" /\ p.val.form = "num"
    /\ p.rating \in {"good", "low"} /\ p.tail = 2

\* the third-from-last line of output p
ThirdFromLast(p) == OutLines(p)[Len(OutLines(p)) - 2]

-----------------------------------------------------------------------------
(* C1: print_metrics and write_metrics fail and emit nothing unless some run() has
   completed successfully; write_output fails and writes no file unless the output
   of the analyzer has been captured. *)
C1_OutputNeedsPriorState ==
    /\ (result.op \in MetricOps /\ okruns = {}) => (result.err # "none" /\ EmittedNothing)
    /\ (result.op = "write_output" /\ self._stdout.isNone)
          => (result.err # "none" /\ EmittedNothing)

(* C2: when the captured standard error is not empty, run() fails with the execution
   error of the check step and stores no metrics, whatever the standard output is. *)
C2_StderrFailsRun ==
    (result.op = "run" /\ Truthy(self._stderr))
        => (result.err = "pylint run caused errors" /\ NothingFrom(nruns))

(* C3: when the analyzer ran and the captured standard output is empty, _check fails
   with 'No stdout captured': run() stops before parsing, and every later
   print_metrics, write_metrics and write_output fails. *)
C3_EmptyStdoutFailsCheck ==
    /\ (result.op = "run" /\ self._stdout = Some(<< >>)) => result.err = "No stdout captured"
    /\ (result.op \in OutputOps /\ self._stdout = Some(<< >>)) => result.err # "none"

(* C4: for an output that lacks one of the three section headers, the others being
   well-formed, the parse fails and no metric field holds a value parsed from it. *)
C4_NoPartialMapping ==
    (nruns = 1 /\ WellFormed([inp EXCEPT !.missing = "none"]) /\ inp.missing # "none")
        => (1 \notin okruns /\ NothingFrom(1))

(* C5: a print_metrics or write_metrics that succeeds emits a mapping whose values
   all come from one single successful run(), never values of a run() that failed. *)
C5_EmitsOneSuccessfulRun ==
    (result.op \in MetricOps /\ result.err = "none")
        => (src.raw \in okruns /\ src.dup = src.raw /\ src.msg = src.raw /\ src.score = src.raw)

(* C6: the file write_output writes holds exactly the captured lines before the first
   " Report" line, in order, never that line or a later one; without such a line it
   holds every captured line. *)
C6_WriteOutputStopsAtReport ==
    (result.op = "write_output" /\ result.err = "none") =>
        LET l == OutLines(inp)
            f == fs[result.opened]
            heads == {i \in 1..Len(l) : l[i] = Lit(" Report")}
        IN  /\ f.kind = "output"
            /\ IF heads = {} THEN f.data = l
               ELSE LET first == CHOOSE i \in heads : \A j \in heads : i <= j
                    IN  /\ Len(f.data) = first - 1
                        /\ \A i \in 1..(first - 1) : f.data[i] = l[i]
                        /\ \A i \in 1..Len(f.data) : f.data[i] # Lit(" Report")

\* write_output has written a file that stops at the first of two " Report" lines
C6_Witness ==
    /\ result.op = "write_output" /\ result.err = "none" /\ inp.rep = "twice"
    /\ fs["o.txt"].data = <<Lit(" m.py:1: C0111")>>

(* C7, as claimed: after a successful run() on a well-formed output the unified mapping
   has exactly the normalized row labels and 'score' as keys, every row's label mapped
   to the truncated value of that row and 'score' to the parsed score. *)
C7_EveryRowKeepsItsValue ==
    (nruns = 1 /\ WellFormed(inp)) =>
        LET d == Data(self).data
            rows == AllRows(inp)
        IN  /\ 1 \in okruns
            /\ Keys(d) = {Replace(rows[i].m) : i \in 1..Len(rows)} \cup {ScoreKey}
            /\ \A i \in 1..Len(rows) : Get(d, Replace(rows[i].m)) = IntVal(Truncated(rows[i].v))
            /\ Get(d, ScoreKey) = FloatVal(RatingTenths(inp))

(* C7, amended: the keys are exactly the normalized row labels and 'score'; a label is
   mapped to the truncated value of the last row that carries it, and 'score' always
   to the parsed score. *)
C7_LastRowWins ==
    (nruns = 1 /\ WellFormed(inp)) =>
        LET d == Data(self).data
            rows == AllRows(inp)
            last(i) == \A j \in (i + 1)..Len(rows) : Replace(rows[j].m) # Replace(rows[i].m)
        IN  /\ 1 \in okruns
            /\ Keys(d) = {Replace(rows[i].m) : i \in 1..Len(rows)} \cup {ScoreKey}
            /\ \A i \in 1..Len(rows) :
                  (last(i) /\ Replace(rows[i].m) # ScoreKey)
                      => Get(d, Replace(rows[i].m)) = IntVal(Truncated(rows[i].v))
            /\ Get(d, ScoreKey) = FloatVal(RatingTenths(inp))

\* run() has succeeded on a well-formed output whose first label collides with a later
\* one after normalization, and whose first value is negative with a fraction
C7_Witness ==
    /\ nruns = 1 /\ 1 \in okruns /\ WellFormed(inp)
    /\ inp.lab = <<"n", "_", "d">> /\ inp.val = NumText(TRUE, 7, <<9>>)
    /\ Get(self._raw_metrics.x, <<"n", "_", "d">>) = IntVal(0 - 7)
    /\ Get(Data(self).data, <<"n", "_", "d">>) = IntVal(0)

(* C8, as claimed: after a successful run() every stored table value is a non-negative
   integer and the stored score lies in [-10.0, 10.0]. *)
C8_ValuesInRange ==
    1 \in okruns =>
        /\ \A f \in {self._raw_metrics, self._duplication, self._messages} :
              \A i \in 1..Len(f.x) : f.x[i].val.t = "int" /\ f.x[i].val.n >= 0
        /\ self._score.t = "float" /\ self._score.n >= 0 - 100 /\ self._score.n <= 100

(* C8, amended: after a successful run() every stored table value is an integer,
   negative exactly when the row it comes from reads -1 or less, and the stored score
   is a float that lies in [-10.0, 10.0] exactly when the number on the rating line
   does: the parser checks no range. *)
C8_ValuesAsWritten ==
    1 \in okruns =>
        LET AsWritten(f, table) ==
                LET rows == DataRows(table)
                    last(i) == \A j \in (i + 1)..Len(rows) :
                                   Replace(rows[j].m) # Replace(rows[i].m)
                IN  /\ Keys(f.x) = {Replace(rows[i].m) : i \in 1..Len(rows)}
                    /\ \A i \in 1..Len(f.x) : f.x[i].val.t = "int"
                    /\ \A i \in 1..Len(rows) :
                          last(i) => (Get(f.x, Replace(rows[i].m)).n < 0
                                         <=> (rows[i].v.neg /\ rows[i].v.ip >= 1))
        IN  /\ AsWritten(self._raw_metrics, RawTable(inp))
            /\ AsWritten(self._duplication, DupTable(inp))
            /\ AsWritten(self._messages, MsgTable(inp))
            /\ self._score.t = "float"
            /\ (self._score.n >= 0 - 100 /\ self._score.n <= 100)
                   <=> (RatingTenths(inp) >= 0 - 100 /\ RatingTenths(inp) <= 100)

\* run() has succeeded and stored a negative table value and a score below -10.0
C8_Witness ==
    /\ 1 \in okruns /\ inp.lab = <<"c">>
    /\ Get(self._raw_metrics.x, <<"c">>) = IntVal(0 - 7)
    /\ self._score = FloatVal(0 - 125)

(* C9, as claimed: once the tables are parsed, the score is X whenever the
   third-from-last line is the rating message for a number X, and the run fails with
   the parse error, storing no score, whenever that line is not the rating message. *)
C9_AnyNumberIsAScore ==
    (nruns = 1 /\ src.msg = 1) =>
        LET line == ThirdFromLast(inp)
        IN  IF line.k = "rating" /\ line.lead /\ line.v.form = "num"
            THEN 1 \in okruns /\ self._score = FloatVal(RatingTenths(inp))
            ELSE /\ result.op = "run" => result.err = "Could not parse score from pylint"
                 /\ 1 \notin okruns /\ self._score = NoneVal

(* C9, amended: once the tables are parsed, the score is X whenever the third-from-last
   line starts with " Your code has been rated at X/10" for an X written with a
   fraction part (digits, '.', digits, an optional leading '-'); in every other case,
   a rating without fraction part such as "10/10" and a rating on another line
   included, the run fails with the parse error and stores no score. *)
C9_FractionIsAScore ==
    (nruns = 1 /\ src.msg = 1) =>
        LET line == ThirdFromLast(inp)
        IN  IF line.k = "rating" /\ line.lead /\ line.v.form = "num" /\ Len(line.v.fr) >= 1
            THEN 1 \in okruns /\ self._score = FloatVal(RatingTenths(inp))
            ELSE /\ result.op = "run" => result.err = "Could not parse score from pylint"
                 /\ 1 \notin okruns /\ self._score = NoneVal

\* the tables were parsed and the score was refused although a matching rating line is
\* in the output, second from the end
C9_Witness ==
    /\ nruns = 1 /\ src.msg = 1 /\ inp.rating = "good" /\ inp.tail = 1
    /\ result.err = "Could not parse score from pylint" /\ self._score = NoneVal

(* C10: the driver configures, runs, emits the metrics, then writes the raw output:
   metrics are emitted once and only after run() succeeded, to the -f file when given
   and to standard output otherwise, never both; the raw report is written only with
   -o and after the metrics; when run() fails nothing is printed or written. *)
C10_DriverOrder ==
    LET printed == SelectSeq(console, LAMBDA e : e.t = "metric")
        metrics == IF args.file.isNone THEN Emit("print_metrics", "")
                   ELSE Emit("write_metrics", args.file.x)
        raw == IF args.outfile.isNone THEN << >>
               ELSE <<Emit("write_output", args.outfile.x)>>
    IN  /\ nruns > 0 => (pc # "parse_args" /\ self.cmd = __init__("m", args.conf).cmd)
        /\ emits # << >> => (okruns # {} /\ emits[1] = metrics)
        /\ Len(emits) > 1 => emits = <<metrics>> \o raw
        /\ printed # << >> => args.file.isNone
        /\ pc = "exit1" => (emits = << >> /\ printed = << >> /\ fs = NoFiles)
        /\ pc = "exit0" =>
              /\ emits = <<metrics>> \o raw
              /\ IF args.file.isNone
                 THEN printed = [i \in 1..Len(Data(self).data) |->
                                    Ev("metric", Data(self).data[i].key, Data(self).data[i].val)]
                 ELSE printed = << >>

\* the driver has ended normally after writing the metrics file and the raw output file
C10_Witness ==
    /\ pc = "exit0" /\ args.file = Some("f.txt") /\ args.outfile = Some("o.txt")
    /\ fs["f.txt"].kind = "metrics" /\ fs["o.txt"].kind = "output"
====
